---------------------------- MODULE Spec2Model ----------------------------
(***************************************************************************)
(* Disk Usage Monitor (src/dashapp.py): the sampler task that appends df   *)
(* readings to the SQLite table, the bounded time-ordered read, the        *)
(* display transforms and the refresh handler with its axis ranges, and    *)
(* the magnitude formatting of numbers.                                    *)
(*                                                                         *)
(* Units: timestamps are epoch seconds; sizes are bytes; the y axis range  *)
(* is kept in hundredths (the code's max * 1.05 is max * 105 here).        *)
(***************************************************************************)
EXTENDS Integers, Sequences, FiniteSets, TLC

(***************************************************************************)
(* Bounds of the model.                                                    *)
(***************************************************************************)
\* Wall-clock seconds the sampler can read are 0..MaxTime.
MaxTime == 4
\* LIMIT_ROW is 8640 in the source (line 27); the model scales it down so
\* that the table can outgrow the cap.
LIMIT_ROW == 4
\* The recency cap of the visible slice, dff[-100:] in the source (line 250,
\* "MAX_POINT" in its comment), scaled down below LIMIT_ROW.
MAX_POINT == 3
\* The tail position of the computed x range, index[-10] and len(dff) > 10
\* in the source (line 265), scaled down below MAX_POINT.
TAIL_POINT == 2

(***************************************************************************)
(* Program constants.                                                      *)
(***************************************************************************)
INTERVAL_SEC == 10
\* datetime.timedelta(hours=9), in seconds.
TZ_OFFSET == 9 * 3600
\* None of Python: an absent range, an absent sample.
None == <<>>
\* NaN of pandas; every stored quantity is >= 0.
NaN == 0 - 1

VARIABLES
    table,      \* the rows of the SQLite table "data"
    task,       \* the sampler task save_data: "running" or "dead"
    op,         \* the operation whose outcome is at hand, "" when none is
    error,      \* the exception it raised, "" when it returned
    where,      \* the function whose code raised it
    sample,     \* save_data: the tuple get_disk_space returned, or None
    mode,       \* update_graph: the dropdown value it was called with
    relayout,   \* update_graph: the keys of the relayoutData it was called with
    df,         \* load_data's return value
    dff,        \* select_graph_type's returned frame
    fig,        \* update_graph's return value
    num,        \* format_number: the argument
    out         \* format_number: the return value

vars == <<table, task, op, error, where, sample, mode, relayout, df, dff, fig, num, out>>

(***************************************************************************)
(* Sequences helpers.                                                      *)
(***************************************************************************)
Min2(a, b) == IF a <= b THEN a ELSE b
Max2(a, b) == IF a >= b THEN a ELSE b

\* seq[-n:] of Python.
LastN(seq, n) == SubSeq(seq, Max2(1, Len(seq) - n + 1), Len(seq))

\* seq[:n] of Python (SQL LIMIT n).
FirstN(seq, n) == SubSeq(seq, 1, Min2(n, Len(seq)))

RECURSIVE SetMax(_)
SetMax(S) ==
    LET x == CHOOSE y \in S : TRUE
    IN  IF S = {x} THEN x ELSE Max2(x, SetMax(S \ {x}))

RECURSIVE SetMin(_)
SetMin(S) ==
    LET x == CHOOSE y \in S : TRUE
    IN  IF S = {x} THEN x ELSE Min2(x, SetMin(S \ {x}))

(***************************************************************************)
(* The table: CREATE TABLE data (timestamp INTEGER PRIMARY KEY, size, used)*)
(***************************************************************************)
Row(t, s, u) == [timestamp |-> t, size |-> s, used |-> u]

db_init == {}

\* The insert into a table whose timestamp column is no key.
insert_or_append(rows, data) ==
    [error |-> "", table |-> rows \cup {Row(data[1], data[2], data[3])}]

\* INSERT INTO data VALUES (?,?,?) then commit: the primary key rejects a
\* row whose timestamp is already stored and leaves the table as it was.
insert(rows, data) ==
    IF \E r \in rows : r.timestamp = data[1]
    THEN [error |-> "IntegrityError", table |-> rows]
    ELSE [error |-> "", table |-> rows \cup {Row(data[1], data[2], data[3])}]

\* ORDER BY timestamp DESC
RECURSIVE OrderByDesc(_)
OrderByDesc(rows) ==
    IF rows = {} THEN <<>>
    ELSE LET r == CHOOSE x \in rows : \A y \in rows : y.timestamp <= x.timestamp
         IN  <<r>> \o OrderByDesc(rows \ {r})

\* ORDER BY timestamp ASC
RECURSIVE OrderByAsc(_)
OrderByAsc(rows) ==
    IF rows = {} THEN <<>>
    ELSE LET r == CHOOSE x \in rows : \A y \in rows : x.timestamp <= y.timestamp
         IN  <<r>> \o OrderByAsc(rows \ {r})

SeqRange(seq) == {seq[i] : i \in 1..Len(seq)}

\* The query without its inner ORDER BY timestamp DESC: the oldest n rows.
select_oldest(rows, n) == FirstN(OrderByAsc(rows), n)

\* SELECT * FROM (SELECT * FROM data ORDER BY timestamp DESC LIMIT n)
\* ORDER BY timestamp ASC
select_recent(rows, n) == OrderByAsc(SeqRange(FirstN(OrderByDesc(rows), n)))

\* The offset added a second time.
shift_twice(frame) ==
    [i \in 1..Len(frame) |-> [frame[i] EXCEPT !.timestamp = @ + TZ_OFFSET + TZ_OFFSET]]

\* df.index += datetime.timedelta(hours=9)
shift_index(frame) ==
    [i \in 1..Len(frame) |-> [frame[i] EXCEPT !.timestamp = @ + TZ_OFFSET]]

load_data(rows) == shift_index(select_recent(rows, LIMIT_ROW))


(***************************************************************************)
(* get_disk_space: df's stdout, split into lines and fields.  A field is   *)
(* a word; int() accepts it (thousands separators removed) when it is all  *)
(* digits.                                                                 *)
(***************************************************************************)
Digits(n) == [digits |-> TRUE, val |-> n]
Word == [digits |-> FALSE, val |-> 0]
Header == <<Word, Word>>

\* The (size, used) pairs df reports, in 1K blocks.
DfReadings == {<<2, 1>>, <<3, 2>>}

\* output.split("\n") for: no output at all (df failed), the header alone,
\* a data line of "-" fields, a data line with one field, a normal report.
DfOutputs ==
    {<< <<>> >>, <<Header, <<>>>>, <<Header, <<Word, Word>>, <<>>>>,
     <<Header, <<Digits(2)>>, <<>>>>}
    \cup {<<Header, <<Digits(r[1]), Digits(r[2])>>, <<>>>> : r \in DfReadings}

Timestamps == 0..MaxTime

\* The tuple (timestamp, size, used), or the exception the parsing raises.
get_disk_space(output, now) ==
    IF Len(output) < 2 THEN [error |-> "IndexError", data |-> None]
    ELSE LET stats == output[2]
         IN  IF Len(stats) < 1 THEN [error |-> "IndexError", data |-> None]
             ELSE IF ~stats[1].digits THEN [error |-> "ValueError", data |-> None]
             ELSE IF Len(stats) < 2 THEN [error |-> "IndexError", data |-> None]
             ELSE IF ~stats[2].digits THEN [error |-> "ValueError", data |-> None]
             ELSE [error |-> "",
                   data |-> <<now, stats[1].val * 1000, stats[2].val * 1000>>]

(***************************************************************************)
(* Figures.                                                                *)
(***************************************************************************)
NoFig == [data |-> <<>>, xrange |-> None, yrange |-> None]

Column(frame, c) == [i \in 1..Len(frame) |-> frame[i][c]]

\* go.Scatter(x=df.index, y=df[name], name=name, mode=tracemode)
Scatter(frame, name, tracemode) ==
    [name |-> name, x |-> Column(frame, "timestamp"), y |-> Column(frame, name),
     mode |-> tracemode]

(***************************************************************************)
(* pandas, as far as select_graph_type's Min-Max branch uses it.  A frame  *)
(* has row labels (its index) and named columns; a Series has labels.      *)
(* Row labels of the loaded frame are timestamps, column names are names.  *)
(***************************************************************************)
TsLabel(t) == [ts |-> t]
ColLabel(c) == [col |-> c]

Labelled(frame) ==
    [index |-> [i \in 1..Len(frame) |-> TsLabel(frame[i].timestamp)],
     columns |-> {"size", "used"},
     rows |-> [i \in 1..Len(frame) |-> [c \in {"size", "used"} |-> frame[i][c]]]]

ColumnValues(F, c) == {F.rows[i][c] : i \in 1..Len(F.rows)} \ {NaN}

\* DataFrame.max() and DataFrame.min(): a Series labelled by the column
\* names, NaN for a column with no value.
frame_max(F) ==
    [l \in {ColLabel(c) : c \in F.columns} |->
        IF ColumnValues(F, l.col) = {} THEN NaN ELSE SetMax(ColumnValues(F, l.col))]

frame_min(F) ==
    [l \in {ColLabel(c) : c \in F.columns} |->
        IF ColumnValues(F, l.col) = {} THEN NaN ELSE SetMin(ColumnValues(F, l.col))]

\* df[name] = series: the series is aligned on the frame's row labels; a
\* row whose label the series lacks gets NaN.
setitem(F, name, series) ==
    [index |-> F.index,
     columns |-> F.columns \cup {name},
     rows |-> [i \in 1..Len(F.rows) |->
                [c \in F.columns \cup {name} |->
                    IF c # name THEN F.rows[i][c]
                    ELSE IF F.index[i] \in DOMAIN series THEN series[F.index[i]]
                    ELSE NaN]]]

\* df.loc[labels]: the rows with these labels; KeyError when one is no row label.
loc(F, labels) ==
    IF \A l \in SeqRange(labels) : ColLabel(l) \in SeqRange(F.index)
    THEN [error |-> "", frame |-> F]
    ELSE [error |-> "KeyError", frame |-> F]

Modes == {"RealTime", "Min-Max", "Candle", "Other"}

\* What the call does: "return" with (frame, data), "raise" with an
\* exception, or "None" when control falls off the end of the function.
select_graph_type(frame, selected) ==
    LET data == <<Scatter(frame, "size", "lines")>>
    IN  IF selected = "RealTime"
        THEN [kind |-> "return", error |-> "", dff |-> frame,
              data |-> data \o <<Scatter(frame, "used", "lines+markers")>>]
        ELSE IF selected = "Min-Max"
        THEN LET F1 == Labelled(frame)
                 F2 == setitem(F1, "max", frame_max(F1))
                 F3 == setitem(F2, "min", frame_min(F2))
                 got == loc(F3, <<"size", "max", "min">>)
             IN  IF got.error # ""
                 THEN [kind |-> "raise", error |-> got.error, dff |-> <<>>, data |-> <<>>]
                 ELSE [kind |-> "return", error |-> "", dff |-> got.frame.rows, data |-> data]
        ELSE [kind |-> "None", error |-> "", dff |-> <<>>, data |-> <<>>]

(***************************************************************************)
(* update_graph: the refresh handler.                                      *)
(***************************************************************************)
\* The four bound keys the handler looks for in relayoutData.
items == {"xaxis.range[0]", "xaxis.range[1]", "yaxis.range[0]", "yaxis.range[1]"}

\* The keys a relayout event of the graph can carry.
RelayoutKeys == items \cup {"xaxis.range", "yaxis.range", "autosize"}

\* The relayoutData the handler is called with, each given by its keys: any
\* of the bound keys, alone or beside an autosize or a pair of range keys.
RelayoutEvents ==
    {bounds \cup other : bounds \in SUBSET items,
                         other \in {{}, {"autosize"}, {"xaxis.range", "yaxis.range"}}}

\* The value the user's event carries under each key: a bound under a
\* bound key, a pair of bounds under a range key.
UserBound(key) ==
    CASE key = "xaxis.range[0]" -> TZ_OFFSET + 1
      [] key = "xaxis.range[1]" -> TZ_OFFSET + 2
      [] key = "yaxis.range[0]" -> 100
      [] key = "yaxis.range[1]" -> 200
      [] OTHER -> 1

UserValue(key) ==
    CASE key = "xaxis.range" -> <<UserBound("xaxis.range[0]"), UserBound("xaxis.range[1]")>>
      [] key = "yaxis.range" -> <<UserBound("yaxis.range[0]"), UserBound("yaxis.range[1]")>>
      [] OTHER -> <<UserBound(key)>>

\* relayout_data.get(key): relayout_data is given by the keys it holds.
get(relayout_data, key) == IF key \in relayout_data THEN UserValue(key) ELSE None

\* show_df.max().max(): the largest value of any column (the index is no column).
max_max(frame) ==
    LET values == {frame[i].size : i \in 1..Len(frame)} \cup {frame[i].used : i \in 1..Len(frame)}
    IN  IF values = {} THEN NaN ELSE SetMax(values)

\* The frame without the recency cap.
whole_frame(frame) == frame

\* show_df = dff[-100:]
show_df(frame) == LastN(frame, MAX_POINT)

\* show_range = (0, show_df.max().max() * 1.05), in hundredths.
show_range(frame) ==
    LET top == max_max(show_df(frame))
    IN  <<0, IF top = NaN THEN NaN ELSE top * 105>>

\* The x range of the layout, or the IndexError its indexing raises:
\* show_df.index[-10] if len(dff) > 10 else dff.index[0], and
\* show_df.index[-1] + shift.
x_range(frame) ==
    LET show == show_df(frame)
    IN  IF Len(frame) > TAIL_POINT /\ Len(show) < TAIL_POINT
        THEN [error |-> "IndexError", range |-> None]
        ELSE IF Len(frame) = 0
        THEN [error |-> "IndexError", range |-> None]
        ELSE [error |-> "",
              range |-> <<IF Len(frame) > TAIL_POINT
                          THEN show[Len(show) - TAIL_POINT + 1].timestamp
                          ELSE frame[1].timestamp,
                          show[Len(show)].timestamp + INTERVAL_SEC>>]

Raised(e, w, frame) ==
    [error |-> e, where |-> w, df |-> frame, dff |-> <<>>, fig |-> NoFig]

update_graph(rows, selected_dropdown_value, relayout_data) ==
    LET frame == load_data(rows)
        sel == select_graph_type(frame, selected_dropdown_value)
    IN  IF sel.kind = "raise" THEN Raised(sel.error, "select_graph_type", frame)
        \* dff, data = None: cannot unpack
        ELSE IF sel.kind = "None" THEN Raised("TypeError", "update_graph", frame)
        ELSE LET xr == x_range(sel.dff)
                 computed == [data |-> sel.data, xrange |-> xr.range,
                              yrange |-> show_range(sel.dff)]
                 is_relayouted == \E item \in items : item \in relayout_data
             IN  IF xr.error # "" THEN Raised(xr.error, "update_graph", frame)
                 ELSE [error |-> "", where |-> "", df |-> frame, dff |-> sel.dff,
                       fig |-> IF ~is_relayouted THEN computed
                               ELSE [computed EXCEPT
                                        !.xrange = get(relayout_data, "xaxis.range"),
                                        !.yrange = get(relayout_data, "yaxis.range")]]

(***************************************************************************)
(* format_number.  TLC's integers are 32 bits wide and the function's      *)
(* domain reaches 10^15, so a number is kept as its sign, its base-1000    *)
(* digits (least significant first) and the count of divisions by 1000     *)
(* applied to it: the value is the sum of digits[i] * 1000^(i - 1 - exp).  *)
(***************************************************************************)
\* Base-1000 digits of an argument: arguments are below 1000^NumDigits.
NumDigits == 6

DigitValues == {0, 1, 5, 500, 999}

suffixes == <<"", "k", "M", "G", "T">>

Number(neg, digits) == [neg |-> neg, digits |-> digits, exp |-> 0]

IsZero(digits) == \A i \in 1..Len(digits) : digits[i] = 0

\* The integers format_number is applied to.
FormatInputs ==
    {Number(neg, digits) : neg \in BOOLEAN, digits \in [1..NumDigits -> DigitValues]}
    \ {Number(TRUE, [i \in 1..NumDigits |-> 0])}

\* abs(num) <= 1000
abs_le_1000(n) ==
    \/ \A i \in (n.exp + 2)..Len(n.digits) : n.digits[i] = 0
    \/ /\ n.exp + 2 <= Len(n.digits)
       /\ \A i \in 1..Len(n.digits) : n.digits[i] = IF i = n.exp + 2 THEN 1 ELSE 0

\* abs(num) < 1000
abs_lt_1000(n) == \A i \in (n.exp + 2)..Len(n.digits) : n.digits[i] = 0

\* num /= 1000
div_1000(n) == [n EXCEPT !.exp = @ + 1]

\* abs(num) in thousandths, rounded down; the divisions make num a float,
\* which holds these digits of a number below 10^15 exactly enough.
Thousandths(n) ==
    (IF n.exp + 1 <= Len(n.digits) THEN n.digits[n.exp + 1] * 1000 ELSE 0)
    + (IF n.exp >= 1 THEN n.digits[n.exp] ELSE 0)

\* Whether digits lie below the thousandths.
Sticky(n) == \E i \in 1..(n.exp - 1) : n.digits[i] # 0

\* f"{num:.2f}": abs(num) in hundredths, rounded to nearest.  When num lies
\* exactly between two hundredths, the float nearest to it decides, and
\* either neighbour can come out (1005 gives 1.00k, 1135 gives 1.14k).
two_decimals(n) ==
    LET down == Thousandths(n) \div 10
        third == Thousandths(n) % 10
    IN  IF third > 5 \/ (third = 5 /\ Sticky(n)) THEN {down + 1}
        ELSE IF third = 5 THEN {down, down + 1}
        ELSE {down}

Formatted(suffix, neg, hundredths) ==
    [suffix |-> suffix, neg |-> neg, hundredths |-> hundredths]

\* The loop ran out of suffixes: the function returns None.
NoneOut == Formatted("None", FALSE, 0)

\* No call has returned yet.
Pending == Formatted("pending", FALSE, 0)

\* The strings a call can return, from the suffix at position i on.
RECURSIVE format_from(_, _)
format_from(n, i) ==
    IF i > Len(suffixes) THEN {NoneOut}
    ELSE IF abs_lt_1000(n)
    THEN {Formatted(suffixes[i], n.neg, h) : h \in two_decimals(n)}
    ELSE format_from(div_1000(n), i + 1)

format_number(n) == format_from(n, 1)

(***************************************************************************)
(* The state after construction, and the operations.                       *)
(***************************************************************************)
Init ==
    /\ table = db_init
    /\ task = "running"
    /\ op = ""
    /\ error = ""
    /\ where = ""
    /\ sample = None
    /\ mode = ""
    /\ relayout = {}
    /\ df = <<>>
    /\ dff = <<>>
    /\ fig = NoFig
    /\ num = Number(FALSE, [i \in 1..NumDigits |-> 0])
    /\ out = Pending

\* One iteration of save_data's loop: the sleep, the probe, the insert.
\* An exception of the probe or of the insert leaves the coroutine.
save_data ==
    /\ op = ""
    /\ task = "running"
    /\ \E output \in DfOutputs, now \in Timestamps :
          LET data == get_disk_space(output, now)
              ins == insert(table, data.data)
          IN  IF data.error # ""
              THEN /\ task' = "dead"
                   /\ error' = data.error
                   /\ where' = "get_disk_space"
                   /\ sample' = None
                   /\ table' = table
              ELSE /\ sample' = data.data
                   /\ table' = ins.table
                   /\ error' = ins.error
                   /\ where' = IF ins.error # "" THEN "save_data" ELSE ""
                   /\ task' = IF ins.error # "" THEN "dead" ELSE "running"
    /\ op' = "save_data"
    /\ mode' = ""
    /\ relayout' = {}
    /\ df' = <<>>
    /\ dff' = <<>>
    /\ fig' = NoFig
    /\ UNCHANGED <<num, out>>

\* load_data(DB_NAME)
LoadData ==
    /\ op \in {"", "load_data"}
    /\ df' = load_data(table)
    /\ op' = "load_data"
    /\ error' = ""
    /\ where' = ""
    /\ sample' = None
    /\ mode' = ""
    /\ relayout' = {}
    /\ dff' = <<>>
    /\ fig' = NoFig
    /\ UNCHANGED <<table, task, num, out>>

\* The callback update_graph, fired by the dropdown, the interval or a
\* relayout of the graph.
UpdateGraph ==
    /\ op = ""
    /\ \E selected \in Modes, relayout_data \in RelayoutEvents :
          LET r == update_graph(table, selected, relayout_data)
          IN  /\ mode' = selected
              /\ relayout' = relayout_data
              /\ error' = r.error
              /\ where' = r.where
              /\ df' = r.df
              /\ dff' = r.dff
              /\ fig' = r.fig
    /\ op' = "update_graph"
    /\ sample' = None
    /\ UNCHANGED <<table, task, num, out>>

\* The outcome has been delivered: to the event loop, the caller, the browser.
Delivered ==
    /\ op # ""
    /\ op' = ""
    /\ error' = ""
    /\ where' = ""
    /\ sample' = None
    /\ mode' = ""
    /\ relayout' = {}
    /\ df' = <<>>
    /\ dff' = <<>>
    /\ fig' = NoFig
    /\ UNCHANGED <<table, task, num, out>>

Next == save_data \/ LoadData \/ UpdateGraph \/ Delivered

Spec == Init /\ [][Next]_vars

(***************************************************************************)
(* format_number applied to each argument.                                 *)
(***************************************************************************)
InitFormat ==
    /\ table = db_init
    /\ task = "running"
    /\ op = ""
    /\ error = ""
    /\ where = ""
    /\ sample = None
    /\ mode = ""
    /\ relayout = {}
    /\ df = <<>>
    /\ dff = <<>>
    /\ fig = NoFig
    /\ num \in FormatInputs
    /\ out = Pending

FormatNumber ==
    /\ out = Pending
    /\ out' \in format_number(num)
    /\ op' = "format_number"
    /\ UNCHANGED <<table, task, error, where, sample, mode, relayout, df, dff, fig, num>>

NextFormat == FormatNumber

SpecFormat == InitFormat /\ [][NextFormat]_vars

(***************************************************************************)
(* The claims.                                                             *)
(***************************************************************************)
Loaded == op \in {"load_data", "update_graph"}

\* C1: an insert of a sample whose timestamp is already stored fails with
\* the duplicate-key error and leaves the stored rows as they were, so the
\* table never holds two rows with one timestamp.
C1_DuplicateRejected ==
    /\ [](\A r1, r2 \in table : r1.timestamp = r2.timestamp => r1 = r2)
    /\ [][(/\ op' = "save_data"
           /\ sample' # None
           /\ \E r \in table : r.timestamp = sample'[1])
          => (error' = "IntegrityError" /\ table' = table)]_vars

\* C1 witness: an insert was refused for a timestamp whose stored row holds
\* other values than the refused sample.
C1_Witness ==
    /\ op = "save_data"
    /\ error = "IntegrityError"
    /\ \E r \in table : r.timestamp = sample[1] /\ r.size # sample[2]

\* C2: a read returns exactly the min(LIMIT_ROW, stored) rows with the
\* largest timestamps, in strictly ascending order: every stored row it
\* omits is older than every row it returns.
C2_MostRecentAscending ==
    Loaded =>
        LET stamp(i) == df[i].timestamp - TZ_OFFSET
        IN  /\ Len(df) = Min2(LIMIT_ROW, Cardinality(table))
            /\ \A i \in 1..Len(df) : Row(stamp(i), df[i].size, df[i].used) \in table
            /\ \A i \in 1..(Len(df) - 1) : df[i].timestamp < df[i + 1].timestamp
            /\ \A r \in table :
                  (\A i \in 1..Len(df) : stamp(i) # r.timestamp)
                  => \A i \in 1..Len(df) : r.timestamp < stamp(i)

\* C2 witness: a read of a table that holds more rows than the cap.
C2_Witness ==
    /\ op = "load_data"
    /\ Cardinality(table) > LIMIT_ROW
    /\ Len(df) = LIMIT_ROW

\* C3: a tick whose probe or insert fails is skipped, and the sampler task
\* goes on running.
C3_SamplerSurvives ==
    (op = "save_data" /\ error # "") => task = "running"

\* C4: when the relayout event holds one of the four bound keys, both
\* ranges of the returned figure are the user's, never None.
C4_UserRangesKept ==
    (op = "update_graph" /\ error = "" /\ relayout \cap items # {}) =>
        /\ fig.xrange # None
        /\ fig.yrange # None
        /\ {"xaxis.range[0]", "xaxis.range[1]"} \subseteq relayout
           => fig.xrange = <<UserBound("xaxis.range[0]"), UserBound("xaxis.range[1]")>>
        /\ {"yaxis.range[0]", "yaxis.range[1]"} \subseteq relayout
           => fig.yrange = <<UserBound("yaxis.range[0]"), UserBound("yaxis.range[1]")>>

\* C5: with none of the four bound keys in the event and a window that is
\* not empty, the returned ranges are the computed ones: x from the
\* TAIL_POINT-th point from the end of the visible slice (the last MAX_POINT
\* points), or from the first point of a window of fewer than TAIL_POINT
\* points, to the last timestamp plus the sampling interval; y from 0 to
\* 1.05 times the largest value of the visible slice.
C5_ComputedRanges ==
    (op = "update_graph" /\ error = "" /\ relayout \cap items = {} /\ Len(df) >= 1) =>
        LET n == Len(df)
            visible == Min2(n, MAX_POINT)
            from == IF n < TAIL_POINT THEN 1 ELSE (n - visible) + (visible - TAIL_POINT + 1)
            top == CHOOSE v \in {df[i].size : i \in (n - visible + 1)..n}
                             \cup {df[i].used : i \in (n - visible + 1)..n} :
                      \A i \in (n - visible + 1)..n : df[i].size <= v /\ df[i].used <= v
        IN  /\ fig.xrange = <<df[from].timestamp, df[n].timestamp + INTERVAL_SEC>>
            /\ fig.yrange = <<0, 105 * top>>

\* C5 witness: a figure with computed ranges over a window longer than the
\* visible slice, whose largest value lies before the slice.
C5_Witness ==
    /\ op = "update_graph"
    /\ error = ""
    /\ relayout \cap items = {}
    /\ Len(df) > MAX_POINT
    /\ \E i \in 1..(Len(df) - MAX_POINT) : df[i].size * 105 > fig.yrange[2]

\* The suffix position the claim gives a number below 1000^5: the
\* smallest k with abs(num) / 1000^k < 1000.
SmallestK(n) ==
    CHOOSE k \in 0..(Len(suffixes) - 1) :
        /\ \A i \in (k + 2)..Len(n.digits) : n.digits[i] = 0
        /\ \A j \in 0..(k - 1) : \E i \in (j + 2)..Len(n.digits) : n.digits[i] # 0

Below10To15(n) == \A i \in (Len(suffixes) + 1)..Len(n.digits) : n.digits[i] = 0

\* abs(a) <= abs(b), for numbers not yet divided.
AbsLeq(a, b) ==
    \/ a.digits = b.digits
    \/ \E i \in 1..Len(a.digits) :
          /\ a.digits[i] < b.digits[i]
          /\ \A j \in (i + 1)..Len(a.digits) : a.digits[j] = b.digits[j]

\* The number >= 0 with these base-1000 digits, least significant first.
Integer(low) ==
    Number(FALSE, [i \in 1..NumDigits |-> IF i <= Len(low) THEN low[i] ELSE 0])

SuffixPosition(s) == CHOOSE i \in 1..Len(suffixes) : suffixes[i] = s

\* The numbers 1000^k - 1 and 1000^k below 10^15.
Boundaries ==
    {Number(FALSE, [i \in 1..NumDigits |-> IF i <= k THEN 999 ELSE 0]) : k \in 1..Len(suffixes)}
    \cup {Number(FALSE, [i \in 1..NumDigits |-> IF i = k + 1 THEN 1 ELSE 0]) :
            k \in 1..(Len(suffixes) - 1)}

\* C6: for an integer below 10^15 in absolute value, the suffix is the one
\* at the smallest k with abs(num) / 1000^k < 1000, the digits are those of
\* num / 1000^k to two decimals (within half a hundredth), 999, 1000,
\* 1500000 and 0 give 999.00, 1.00k, 1.50M and 0.00, and the position of the
\* suffix never decreases as abs(num) grows.
C6_SuffixAndDigits ==
    (out # Pending /\ Below10To15(num)) =>
        LET k == SmallestK(num)
            scaled == [num EXCEPT !.exp = k]
            exact == Thousandths(scaled)
        IN  /\ out.suffix = suffixes[k + 1]
            /\ out.neg = num.neg
            /\ 10 * out.hundredths - exact <= 5
            /\ 10 * out.hundredths - exact >= (IF Sticky(scaled) THEN 0 - 4 ELSE 0 - 5)
            /\ num = Integer(<<999>>) => out = Formatted("", FALSE, 99900)
            /\ num = Integer(<<0, 1>>) => out = Formatted("k", FALSE, 100)
            /\ num = Integer(<<0, 500, 1>>) => out = Formatted("M", FALSE, 150)
            /\ IsZero(num.digits) => out = Formatted("", FALSE, 0)
            /\ \A w \in Boundaries :
                  LET pw == SuffixPosition((CHOOSE r \in format_number(w) : TRUE).suffix)
                  IN  /\ AbsLeq(w, num) => pw <= SuffixPosition(out.suffix)
                      /\ AbsLeq(num, w) => SuffixPosition(out.suffix) <= pw

\* C6 witness: 1500000 was formatted as 1.50M.
C6_Witness ==
    /\ out = Formatted("M", FALSE, 150)
    /\ num = Integer(<<0, 500, 1>>)

\* C7: in Min-Max mode a window of N >= 1 rows yields a frame of N rows
\* whose max and min columns hold the window-wide maximum and minimum in
\* every row, beside the size trace.
C7_MinMaxBroadcast ==
    (op = "update_graph" /\ mode = "Min-Max" /\ Len(df) >= 1) =>
        /\ error = ""
        /\ Len(dff) = Len(df)
        /\ \A i \in 1..Len(dff) :
              /\ \A j \in 1..Len(df) : df[j].size <= dff[i]["max"]
              /\ \A j \in 1..Len(df) : dff[i]["min"] <= df[j].size
        /\ Len(fig.data) >= 1
        /\ fig.data[1] = Scatter(df, "size", "lines")

\* C8: RealTime returns the size and used traces over the whole window; a
\* selector value with no transform is rejected by select_graph_type with
\* an invalid-argument or not-supported error.
C8_ModeDispatch ==
    op = "update_graph" =>
        /\ (mode = "RealTime" /\ error = "")
           => /\ dff = df
              /\ fig.data = <<Scatter(df, "size", "lines"),
                              Scatter(df, "used", "lines+markers")>>
        /\ mode \notin {"RealTime", "Min-Max"}
           => /\ error \in {"InvalidArgumentError", "NotImplementedError", "ValueError"}
              /\ where = "select_graph_type"

\* C9: a load leaves the stored rows as they are; every returned row is a
\* stored row with the offset added once to its timestamp; two loads with
\* no insert between them return the same series.
C9_LoadReadOnly ==
    /\ [](Loaded =>
            \A i \in 1..Len(df) :
               \E r \in table : /\ df[i].timestamp = r.timestamp + TZ_OFFSET
                                /\ df[i].size = r.size
                                /\ df[i].used = r.used)
    /\ [][Loaded' => table' = table]_vars
    /\ [][(op = "load_data" /\ op' = "load_data") => df' = df]_vars

\* C9 witness: a load that returned rows.
C9_Witness ==
    /\ op = "load_data"
    /\ Len(df) >= 2
    /\ df[1].timestamp = TZ_OFFSET

\* C10: a refresh against a table that holds no rows returns a figure and
\* raises nothing.
C10_EmptyWindowFigure ==
    (op = "update_graph" /\ table = {} /\ mode = "RealTime") => error = ""

=============================================================================
